---------------------------- MODULE Spec2Model ----------------------------
(***************************************************************************)
(* DatasetCategories (src/deepdoctection/datasets/info.py): the category / *)
(* sub-category bookkeeping of a dataset, and get_merged_categories.       *)
(*                                                                         *)
(* A Python dict is a sequence of <<key, value>> pairs with distinct keys, *)
(* in insertion order.  An optional value (None, or an attribute that may  *)
(* be absent) is a sequence of length 0 or 1.                              *)
(***************************************************************************)
EXTENDS Integers, Sequences, FiniteSets, TLC

VARIABLES regs, merged, last

vars == <<regs, merged, last>>

---------------------------------------------------------------------------
(* Bounds and universes of names *)

\* longest list of names passed to filter_categories and get_sub_categories
MaxReq == 2
\* most registries passed to get_merged_categories
MaxRegs == 2

\* The names overlap as Python strings may: "a" is a category and a sub-category
\* key, "b" a category and a sub-category value, "s" a sub-category key and value.
CatNames == {"a", "b"}
KeyNames == {"s", "a"}
ValueLists == {<<>>, <<"s">>, <<"b", "s">>}
Names == {"a", "b", "s"}

None == <<>>
Some(v) == <<v>>
IsNone(o) == Len(o) = 0
Val(o) == o[1]

Range(s) == {s[i] : i \in 1..Len(s)}

\* sequences over S of length at most n
SeqsUpTo(S, n) == UNION {[1..k -> S] : k \in 0..n}

\* sequences over S of length at most n without a repeated element
NoDupSeqs(S, n) == {q \in SeqsUpTo(S, n) : \A i, j \in 1..Len(q) : q[i] = q[j] => i = j}

---------------------------------------------------------------------------
(* Python dict and list primitives *)

DictKeys(d) == [i \in 1..Len(d) |-> d[i][1]]

KeySet(d) == {d[i][1] : i \in 1..Len(d)}

HasKey(d, k) == k \in KeySet(d)

Lookup(d, k) == d[CHOOSE i \in 1..Len(d) : d[i][1] = k][2]

\* d.get(k, default)
DictGet(d, k, default) == IF HasKey(d, k) THEN Lookup(d, k) ELSE default

\* d[k] = v
DictSet(d, k, v) ==
  IF HasKey(d, k)
    THEN [i \in 1..Len(d) |-> IF d[i][1] = k THEN <<k, v>> ELSE d[i]]
    ELSE Append(d, <<k, v>>)

\* {k: v for k, v in pairs}, added to d
RECURSIVE DictFromPairs(_, _)
DictFromPairs(pairs, d) ==
  IF Len(pairs) = 0 THEN d
  ELSE DictFromPairs(Tail(pairs), DictSet(d, Head(pairs)[1], Head(pairs)[2]))

\* list(chain(*ll))
RECURSIVE chain(_)
chain(ll) == IF Len(ll) = 0 THEN <<>> ELSE Head(ll) \o chain(Tail(ll))

DigitChars == <<"0", "1", "2", "3", "4", "5", "6", "7", "8", "9">>

\* str(k) of a natural number k: its decimal digits
RECURSIVE str(_)
str(k) == IF k < 10 THEN DigitChars[k + 1] ELSE str(k \div 10) \o DigitChars[(k % 10) + 1]

\* An argument that may be None, a str or a list of str: [kind, val] with val the
\* list, <<the str>> for a str and <<>> for None
NoneArg == [kind |-> "None", val |-> <<>>]
StrArg(s) == [kind |-> "str", val |-> <<s>>]
ListArg(l) == [kind |-> "list", val |-> l]

\* isinstance(x, str)
IsStr(x) == x.kind = "str"

---------------------------------------------------------------------------
(* DatasetCategories *)

_get_dict(l, name_as_key, starts_with) ==
  IF name_as_key
    THEN DictFromPairs([i \in 1..Len(l) |-> <<l[i], str(i + starts_with - 1)>>], <<>>)
    ELSE DictFromPairs([i \in 1..Len(l) |-> <<str(i + starts_with - 1), l[i]>>], <<>>)

\* a constructor that starts with an empty mapping instead of None
DatasetCategories_emptymap(ic, isc) ==
  [ init_categories |-> ic,
    init_sub_categories |-> isc,
    categories_update |-> ic,
    cat_to_sub_cat |-> Some(<<>>),
    categories_filter_update |-> None,
    raised |-> "none" ]

\* __post_init__ after the dataclass __init__ stored both fields; the filter
\* attribute does not exist yet
DatasetCategories(ic, isc) ==
  [ init_categories |-> ic,
    init_sub_categories |-> isc,
    categories_update |-> ic,
    cat_to_sub_cat |-> None,
    categories_filter_update |-> None,
    raised |-> "none" ]

get_categories(self, as_dict, name_as_key, init, filtered) ==
  IF init THEN
    IF as_dict THEN _get_dict(self.init_categories, name_as_key, 1)
    ELSE self.init_categories
  ELSE IF filtered THEN
    IF as_dict THEN
      IF ~IsNone(self.categories_filter_update)
        THEN _get_dict(Val(self.categories_filter_update), name_as_key, 1)
        ELSE _get_dict(self.categories_update, name_as_key, 1)
    ELSE IF ~IsNone(self.categories_filter_update)
      THEN Val(self.categories_filter_update)
      ELSE self.categories_update
  ELSE IF as_dict THEN _get_dict(self.categories_update, name_as_key, 1)
  ELSE self.categories_update

is_cat_to_sub_cat(self) == ~IsNone(self.cat_to_sub_cat)

is_filtered(self) == ~IsNone(self.categories_filter_update)

\* the body of "for key, val in self._cat_to_sub_cat.items()" for one requested
\* name cat; acc is [raised, value] with value the sub_cat dict built so far
RECURSIVE SubCatItemsLoop(_, _, _, _)
SubCatItemsLoop(self, cat, items, acc) ==
  IF Len(items) = 0 \/ acc.raised # "none" THEN acc
  ELSE LET key == Head(items)[1]
           val == Head(items)[2]
       IN IF ~HasKey(self.init_sub_categories, key)
            THEN [raised |-> "KeyError", value |-> <<>>]
            ELSE LET sub_cat_dict_key == Lookup(self.init_sub_categories, key)
                     hit == val \in KeySet(sub_cat_dict_key)
                     sub_cat_list == DictGet(sub_cat_dict_key, cat, <<>>)
                 IN SubCatItemsLoop(self, cat, Tail(items),
                      IF hit THEN [acc EXCEPT !.value = DictSet(acc.value, cat, sub_cat_list)]
                      ELSE acc)

\* "for cat in categories" of get_sub_categories
RECURSIVE SubCatLoop(_, _, _)
SubCatLoop(self, categories, acc) ==
  IF Len(categories) = 0 \/ acc.raised # "none" THEN acc
  ELSE LET cat == Head(categories)
       IN IF cat \notin Range(get_categories(self, FALSE, FALSE, FALSE, TRUE))
            THEN [raised |-> "AssertionError", value |-> <<>>]
          ELSE IF ~HasKey(self.init_sub_categories, cat)
            THEN IF ~IsNone(self.cat_to_sub_cat) /\ Len(Val(self.cat_to_sub_cat)) > 0
                   THEN SubCatLoop(self, Tail(categories),
                          SubCatItemsLoop(self, cat, Val(self.cat_to_sub_cat), acc))
                   ELSE SubCatLoop(self, Tail(categories), acc)
          ELSE SubCatLoop(self, Tail(categories),
                 [acc EXCEPT !.value =
                    DictSet(acc.value, cat, DictKeys(Lookup(self.init_sub_categories, cat)))])

get_sub_categories(self, categories) ==
  LET cats == IF IsStr(categories) THEN <<categories.val[1]>>
              ELSE IF categories.kind = "None"
                THEN get_categories(self, FALSE, FALSE, FALSE, TRUE)
              ELSE categories.val
  IN SubCatLoop(self, cats, [raised |-> "none", value |-> <<>>])

\* a substitution that forgets to reset categories_update to init_categories
set_cat_to_sub_cat_noreset(self, cat_to_sub_cat) ==
  LET categories == DictKeys(get_categories(self, TRUE, TRUE, FALSE, FALSE))
      cats_or_sub_cats ==
        [i \in 1..Len(categories) |->
           LET cat == categories[i]
           IN DictGet(DictGet(self.init_sub_categories, cat, <<<<cat, <<cat>>>>>>),
                      DictGet(cat_to_sub_cat, cat, cat), <<cat>>)]
  IN [self EXCEPT !.cat_to_sub_cat = Some(cat_to_sub_cat),
                  !.categories_update = chain(cats_or_sub_cats)]

set_cat_to_sub_cat(self, cat_to_sub_cat) ==
  LET reset == [self EXCEPT !.categories_update = self.init_categories]
      categories == DictKeys(get_categories(reset, TRUE, TRUE, FALSE, FALSE))
      cats_or_sub_cats ==
        [i \in 1..Len(categories) |->
           LET cat == categories[i]
           IN DictGet(DictGet(self.init_sub_categories, cat, <<<<cat, <<cat>>>>>>),
                      DictGet(cat_to_sub_cat, cat, cat), <<cat>>)]
  IN [reset EXCEPT !.cat_to_sub_cat = Some(cat_to_sub_cat),
                   !.categories_update = chain(cats_or_sub_cats)]

\* a filter that narrows the view an earlier filter left
filter_categories_cumulative(self, categories) ==
  LET cats == IF IsStr(categories) THEN <<categories.val[1]>> ELSE categories.val
  IN [self EXCEPT !.categories_filter_update =
        Some(SelectSeq(get_categories(self, FALSE, FALSE, FALSE, TRUE),
                       LAMBDA cat : cat \in Range(cats)))]

\* a filter that also overwrites categories_update
filter_categories_inplace(self, categories) ==
  LET cats == IF IsStr(categories) THEN <<categories.val[1]>> ELSE categories.val
      kept == SelectSeq(self.categories_update, LAMBDA cat : cat \in Range(cats))
  IN [self EXCEPT !.categories_filter_update = Some(kept), !.categories_update = kept]

filter_categories(self, categories) ==
  LET cats == IF IsStr(categories) THEN <<categories.val[1]>> ELSE categories.val
  IN [self EXCEPT !.categories_filter_update =
        Some(SelectSeq(self.categories_update, LAMBDA cat : cat \in Range(cats)))]

---------------------------------------------------------------------------
(* get_merged_categories *)

\* list(S) of a Python set S: its elements once each, in an order the
\* interpreter chooses; the set of all lists it can be
RECURSIVE ListsOf(_)
ListsOf(S) ==
  IF S = {} THEN {<<>>}
  ELSE UNION {{<<x>> \o l : l \in ListsOf(S \ {x})} : x \in S}

\* the loop "if label not in init_categories: init_categories.append(label)"
\* over the labels still to come
RECURSIVE AppendNew(_, _)
AppendNew(init_categories, labels) ==
  IF Len(labels) = 0 THEN init_categories
  ELSE AppendNew(IF Head(labels) \in Range(init_categories)
                   THEN init_categories
                   ELSE Append(init_categories, Head(labels)),
                 Tail(labels))

\* a merge that appends every label, seen before or not
MergedInitCategories_nodedupe(categories) ==
  chain([i \in 1..Len(categories) |-> categories[i].init_categories])

MergedInitCategories(categories) ==
  AppendNew(<<>>, chain([i \in 1..Len(categories) |-> categories[i].init_categories]))

\* set(a.keys()).intersection(*[b.keys() for b in rest]) over the dicts ds
IntersectKeys(ds) ==
  {k \in KeySet(ds[1]) : \A i \in 2..Len(ds) : k \in KeySet(ds[i])}

IntersectSubCatKeys(categories) ==
  IntersectKeys([i \in 1..Len(categories) |-> categories[i].init_sub_categories])

SubCatPerKey(categories, key) ==
  [i \in 1..Len(categories) |-> Lookup(categories[i].init_sub_categories, key)]

\* a merge that takes the values of the first dataset only
MergedValues_first(categories, key, sub_cat_key) ==
  Range(Lookup(Lookup(categories[1].init_sub_categories, key), sub_cat_key))

\* the set val after "for cat in categories: val.update(...)"
MergedValues(categories, key, sub_cat_key) ==
  UNION {Range(Lookup(Lookup(categories[i].init_sub_categories, key), sub_cat_key))
           : i \in 1..Len(categories)}

\* the dicts filled while iterating over the set keys in some order, the value
\* stored for key k being any member of values[k]
DictsOver(keys, values) ==
  {[i \in 1..Len(order) |-> <<order[i], f[order[i]]>>] :
     order \in ListsOf(keys),
     f \in {g \in [keys -> UNION {values[k] : k \in keys}] : \A k \in keys : g[k] \in values[k]}}

\* intersect_init_sub_cat_values for one category key
MergedSubCatValues(categories, key) ==
  LET sub_cat_keys == IntersectKeys(SubCatPerKey(categories, key))
  IN DictsOver(sub_cat_keys,
       [sub_cat_key \in sub_cat_keys |-> ListsOf(MergedValues(categories, key, sub_cat_key))])

\* intersect_init_sub_cat
MergedSubCategories(categories) ==
  LET keys == IntersectSubCatKeys(categories)
  IN DictsOver(keys, [key \in keys |-> MergedSubCatValues(categories, key)])

\* a merge that, given no registry, skips the sub-category step and returns an
\* empty registry
get_merged_categories_empty(categories) ==
  {[DatasetCategories(MergedInitCategories(categories), isc) EXCEPT
      !.categories_update = categories_update,
      !.categories_filter_update = Some(categories_filtered)] :
     isc \in IF Len(categories) = 0 THEN {<<>>} ELSE MergedSubCategories(categories),
     categories_update \in ListsOf(UNION
       {Range(get_categories(categories[i], FALSE, FALSE, FALSE, FALSE))
          : i \in 1..Len(categories)}),
     categories_filtered \in ListsOf(UNION
       {Range(get_categories(categories[i], FALSE, FALSE, FALSE, TRUE))
          : i \in 1..Len(categories)})}

\* every registry a call can return: the iteration order of the Python sets is
\* the interpreter's choice.  Without arguments categories[0] raises IndexError.
get_merged_categories(categories) ==
  IF Len(categories) = 0
    THEN {[DatasetCategories(<<>>, <<>>) EXCEPT !.raised = "IndexError"]}
    ELSE {[DatasetCategories(MergedInitCategories(categories), isc) EXCEPT
             !.categories_update = categories_update,
             !.categories_filter_update = Some(categories_filtered)] :
            isc \in MergedSubCategories(categories),
            categories_update \in ListsOf(UNION
              {Range(get_categories(categories[i], FALSE, FALSE, FALSE, FALSE))
                 : i \in 1..Len(categories)}),
            categories_filtered \in ListsOf(UNION
              {Range(get_categories(categories[i], FALSE, FALSE, FALSE, TRUE))
                 : i \in 1..Len(categories)})}

---------------------------------------------------------------------------
(* Inputs *)

\* dicts with keys in K and values in V
RECURSIVE Dicts(_, _)
Dicts(K, V) ==
  {<<>>} \cup UNION {{<<<<k, v>>>> \o d : v \in V, d \in Dicts(K \ {k}, V)} : k \in K}

\* the sub-categories of one category: no key, or one key and its value list
SubCatDicts == {<<>>} \cup {<<<<k, v>>>> : k \in KeyNames, v \in ValueLists}

\* init_sub_categories: at most one category carries sub-categories
SubCategories == {<<>>} \cup {<<<<c, d>>>> : c \in CatNames, d \in SubCatDicts}

\* init_categories: every ordering of every subset of CatNames (no duplicates)
Taxonomies ==
  {<<ic, isc>> : ic \in NoDupSeqs(CatNames, Cardinality(CatNames)), isc \in SubCategories}

\* the cat_to_sub_cat arguments
Mappings == Dicts(CatNames, KeyNames)

NameLists == NoDupSeqs(Names, MaxReq)

\* arguments of filter_categories: a name or a list of names
FilterArgs == {StrArg(n) : n \in Names} \cup {ListArg(l) : l \in NameLists}

\* arguments of get_sub_categories: None, a name or a list of names
Requests == {NoneArg} \cup FilterArgs

---------------------------------------------------------------------------
(* The state machine of one registry *)

Init ==
  /\ \E t \in Taxonomies : regs = <<DatasetCategories(t[1], t[2])>>
  /\ merged = None
  /\ last = [op |-> "__init__", reg |-> 1, arg |-> NoneArg, ret |-> None]

SetCatToSubCat(i, m) ==
  /\ regs' = [regs EXCEPT ![i] = set_cat_to_sub_cat(regs[i], m)]
  /\ last' = [op |-> "set_cat_to_sub_cat", reg |-> i, arg |-> ListArg(m), ret |-> None]
  /\ UNCHANGED merged

FilterCategories(i, X) ==
  /\ regs' = [regs EXCEPT ![i] = filter_categories(regs[i], X)]
  /\ last' = [op |-> "filter_categories", reg |-> i, arg |-> X, ret |-> None]
  /\ UNCHANGED merged

GetSubCategories(i, names) ==
  /\ last' = [op |-> "get_sub_categories", reg |-> i, arg |-> names,
              ret |-> Some(get_sub_categories(regs[i], names))]
  /\ UNCHANGED <<regs, merged>>

Next ==
  \/ \E i \in DOMAIN regs : \E m \in Mappings : SetCatToSubCat(i, m)
  \/ \E i \in DOMAIN regs : \E X \in FilterArgs : FilterCategories(i, X)
  \/ \E i \in DOMAIN regs : \E names \in Requests : GetSubCategories(i, names)

Spec == Init /\ [][Next]_vars

---------------------------------------------------------------------------
(* The state machine of get_merged_categories: up to MaxRegs registries, each
   substituted and filtered at will, then merged in argument order *)

MergeCategoryLists == {<<"a">>, <<"b", "a">>}

MergeSubCategories ==
  { <<>>,
    <<<<"a", <<<<"s", <<"x">>>>>>>>>>,
    <<<<"a", <<<<"t", <<"x">>>>>>>>>>,
    <<<<"a", <<<<"s", <<"x">>>>, <<"t", <<"b">>>>>>>>>> }

MergeTaxonomies == {<<ic, isc>> : ic \in MergeCategoryLists, isc \in MergeSubCategories}

MergeMappings == {<<<<"a", "s">>>>}

MergeFilterArgs == {StrArg("a")}

MergeInit ==
  /\ regs \in SeqsUpTo({DatasetCategories(t[1], t[2]) : t \in MergeTaxonomies}, MaxRegs)
  /\ merged = None
  /\ last = [op |-> "__init__", reg |-> 0, arg |-> NoneArg, ret |-> None]

GetMergedCategories ==
  /\ \E result \in get_merged_categories(regs) : merged' = Some(result)
  /\ last' = [op |-> "get_merged_categories", reg |-> 0, arg |-> NoneArg, ret |-> None]
  /\ UNCHANGED regs

\* the registries are prepared first; the merge ends the run
MergeNext ==
  \/ IsNone(merged) /\ \E i \in DOMAIN regs : \E m \in MergeMappings : SetCatToSubCat(i, m)
  \/ IsNone(merged) /\ \E i \in DOMAIN regs : \E X \in MergeFilterArgs : FilterCategories(i, X)
  \/ IsNone(merged) /\ GetMergedCategories

MergeSpec == MergeInit /\ [][MergeNext]_vars

---------------------------------------------------------------------------
(* Observers used by the properties *)

\* the registry the last call was made on
Self == regs[last.reg]

\* the list get_categories(as_dict=False) returns under the given flags
CategoryList(self, init, filtered) == get_categories(self, FALSE, FALSE, init, filtered)

\* the indices of a dict get_categories(as_dict=True) returned
IndexSet(d, name_as_key) ==
  IF name_as_key THEN {d[i][2] : i \in 1..Len(d)} ELSE {d[i][1] : i \in 1..Len(d)}

\* dict d pairs name with index idx
Pairs(d, name_as_key, name, idx) ==
  \E i \in 1..Len(d) : d[i] = IF name_as_key THEN <<name, idx>> ELSE <<idx, name>>

\* the subsequence of l of the names that are in S
RECURSIVE Subsequence(_, _)
Subsequence(l, S) ==
  IF Len(l) = 0 THEN <<>>
  ELSE IF Head(l) \in S THEN <<Head(l)>> \o Subsequence(Tail(l), S)
  ELSE Subsequence(Tail(l), S)

\* what substitution by mapping m yields for category c of a taxonomy
Substitute(isc, m, c) ==
  IF HasKey(m, c) /\ HasKey(isc, c) /\ HasKey(Lookup(isc, c), Lookup(m, c))
    THEN Lookup(Lookup(isc, c), Lookup(m, c))
    ELSE <<c>>

RECURSIVE Concatenation(_, _, _)
Concatenation(ic, isc, m) ==
  IF Len(ic) = 0 THEN <<>>
  ELSE Substitute(isc, m, Head(ic)) \o Concatenation(Tail(ic), isc, m)

\* init_sub_categories has a key that is no init category, or an empty value list
BadTaxonomy(ic, isc) ==
  \/ \E c \in KeySet(isc) : c \notin Range(ic)
  \/ \E i \in 1..Len(isc) : \E j \in 1..Len(isc[i][2]) : Len(isc[i][2][j][2]) = 0

\* the names a get_sub_categories call asks for
Requested(self, arg) ==
  IF arg.kind = "None" THEN Range(CategoryList(self, FALSE, TRUE)) ELSE Range(arg.val)

---------------------------------------------------------------------------
(* Properties *)

\* C1: whatever init, filtered and name_as_key are, the indices of
\* get_categories(as_dict=true) are exactly "1".."n", without gap or repeat, n the
\* length of the list get_categories(as_dict=false) returns under the same flags,
\* and each name is paired with its 1-based position in that list.
C1_DenseIndices ==
  \A i \in DOMAIN regs : \A init, filtered, name_as_key \in BOOLEAN :
    LET l == get_categories(regs[i], FALSE, name_as_key, init, filtered)
        d == get_categories(regs[i], TRUE, name_as_key, init, filtered)
    IN /\ IndexSet(d, name_as_key) = {str(k) : k \in 1..Len(l)}
       /\ Len(d) = Len(l)
       /\ \A k \in 1..Len(l) : Pairs(d, name_as_key, l[k], str(k))

\* C2: after set_cat_to_sub_cat(m), categories_update is the concatenation over
\* init_categories, in order, of init_sub_categories[c][m[c]] when c is listed in m
\* and that key is defined for c, and of [c] in every other case.
C2_SubstitutionResult ==
  last.op = "set_cat_to_sub_cat" =>
    Self.categories_update =
      Concatenation(Self.init_categories, Self.init_sub_categories, last.arg.val)

\* C3: after a substitution (and before any later filter_categories call) the
\* registry is not filtered, and the filtered view is the unfiltered one.
C3_SubstitutionResetsFilter ==
  last.op = "set_cat_to_sub_cat" =>
    /\ ~is_filtered(Self)
    /\ CategoryList(Self, FALSE, TRUE) = CategoryList(Self, FALSE, FALSE)

C5_FilterFrame ==
  [][last'.op = "filter_categories" =>
       \A i \in DOMAIN regs :
         /\ \A as_dict, name_as_key \in BOOLEAN :
              /\ get_categories(regs'[i], as_dict, name_as_key, FALSE, FALSE)
                   = get_categories(regs[i], as_dict, name_as_key, FALSE, FALSE)
              /\ get_categories(regs'[i], as_dict, name_as_key, TRUE, FALSE)
                   = get_categories(regs[i], as_dict, name_as_key, TRUE, FALSE)
         /\ regs'[i].cat_to_sub_cat = regs[i].cat_to_sub_cat
         /\ is_cat_to_sub_cat(regs'[i]) = is_cat_to_sub_cat(regs[i])
         /\ regs'[i].init_sub_categories = regs[i].init_sub_categories]_vars

C5_Witness ==
  /\ last.op = "filter_categories"
  /\ is_cat_to_sub_cat(Self)
  /\ Self.categories_update # Self.init_categories
  /\ CategoryList(Self, FALSE, TRUE) # CategoryList(Self, FALSE, FALSE)

\* C6: the categories_update a set_cat_to_sub_cat(m) call leaves is the one the
\* same call leaves on a freshly constructed registry of the same taxonomy,
\* whatever calls came before; with no sub-category entries and m = {} it is
\* init_categories.
C6_SubstitutionFromOriginal ==
  last.op = "set_cat_to_sub_cat" =>
    LET fresh == DatasetCategories(Self.init_categories, Self.init_sub_categories)
    IN /\ Self.categories_update =
            set_cat_to_sub_cat(fresh, last.arg.val).categories_update
       /\ (Len(last.arg.val) = 0 /\ Len(Self.init_sub_categories) = 0)
            => Self.categories_update = Self.init_categories

\* a substitution made on a registry that an earlier call had filtered
C6_Witness ==
  /\ last.op = "set_cat_to_sub_cat"
  /\ is_filtered(Self)
  /\ Self.categories_update # Self.init_categories

\* C7 (as claimed): construction fails with ConfigurationError when
\* init_sub_categories names a category that is not in init_categories or holds
\* an empty value list.
C7_ConstructionValidates ==
  (last.op = "__init__" /\ BadTaxonomy(Self.init_categories, Self.init_sub_categories))
    => Self.raised = "ConfigurationError"

\* C7 (amended): construction never fails, whatever the taxonomy: it yields a
\* registry with categories_update equal to init_categories, no substitution
\* active and no filter applied.
C7_ConstructionSucceeds ==
  last.op = "__init__" =>
    /\ Self.raised = "none"
    /\ Self.categories_update = Self.init_categories
    /\ ~is_cat_to_sub_cat(Self)
    /\ Self.cat_to_sub_cat = None
    /\ ~is_filtered(Self)

C7_Witness ==
  /\ last.op = "__init__"
  /\ BadTaxonomy(Self.init_categories, Self.init_sub_categories)
  /\ Len(Self.init_categories) > 0

\* C8: get_sub_categories fails with the "not in categories" assertion and
\* returns no mapping whenever a requested name is not in the current view (the
\* filtered view once a filter was applied, categories_update otherwise).
C8_MissingNameAsserts ==
  (/\ last.op = "get_sub_categories"
   /\ \E n \in Requested(Self, last.arg) : n \notin Range(CategoryList(Self, FALSE, TRUE)))
    => /\ Val(last.ret).raised = "AssertionError"
       /\ Val(last.ret).value = <<>>

\* l has no element twice
NoDuplicates(l) == \A j, k \in 1..Len(l) : l[j] = l[k] => j = k

\* the position at which name x first appears in list l
FirstIndex(l, x) == CHOOSE j \in 1..Len(l) : l[j] = x /\ \A k \in 1..(j - 1) : l[k] # x

\* the init_categories of all inputs of a merge, in argument order
AllInitCategories == chain([i \in 1..Len(regs) |-> regs[i].init_categories])

\* the value list input i holds for sub-category key S of category C
InputValues(i, C, S) == Lookup(Lookup(regs[i].init_sub_categories, C), S)

\* C9: the merged init_sub_categories has an entry for C only if every input has
\* one; for such C a sub-category key S is present iff S is a key of C's entry in
\* every input; and the value list of (C, S) holds, without duplicates, exactly
\* the union of the inputs' value lists of (C, S).
C9_MergedSubCategories ==
  (last.op = "get_merged_categories" /\ Len(regs) >= 1) =>
    LET isc == Val(merged).init_sub_categories
    IN /\ Val(merged).raised = "none"
       /\ \A C \in KeySet(isc) :
            /\ \A i \in DOMAIN regs : HasKey(regs[i].init_sub_categories, C)
            /\ \A S \in KeySet(Lookup(isc, C)) \cup
                        UNION {KeySet(Lookup(regs[i].init_sub_categories, C)) : i \in DOMAIN regs} :
                 HasKey(Lookup(isc, C), S)
                   <=> \A i \in DOMAIN regs : HasKey(Lookup(regs[i].init_sub_categories, C), S)
            /\ \A S \in KeySet(Lookup(isc, C)) :
                 /\ NoDuplicates(Lookup(Lookup(isc, C), S))
                 /\ Range(Lookup(Lookup(isc, C), S))
                      = UNION {Range(InputValues(i, C, S)) : i \in DOMAIN regs}
       /\ \A C \in UNION {Range(regs[i].init_categories) : i \in DOMAIN regs} :
            (\E i \in DOMAIN regs : ~HasKey(regs[i].init_sub_categories, C))
              => ~HasKey(isc, C)

\* a merge of two registries whose value lists for one key differ, next to one
\* that was substituted
C9_Witness ==
  /\ last.op = "get_merged_categories"
  /\ Len(regs) >= 2
  /\ \E C \in KeySet(Val(merged).init_sub_categories) :
       \E S \in KeySet(Lookup(Val(merged).init_sub_categories, C)) :
         /\ InputValues(1, C, S) # InputValues(2, C, S)
         /\ Len(Lookup(Lookup(Val(merged).init_sub_categories, C), S)) > Len(InputValues(1, C, S))
  /\ \E i \in DOMAIN regs : is_cat_to_sub_cat(regs[i])

\* C10: the merged init_categories holds every name of every input's
\* init_categories once and nothing else, ordered by first appearance over the
\* inputs in argument order, whatever substitution or filter the inputs carry.
C10_MergedInitCategories ==
  (last.op = "get_merged_categories" /\ Len(regs) >= 1) =>
    LET l == Val(merged).init_categories
    IN /\ NoDuplicates(l)
       /\ Range(l) = Range(AllInitCategories)
       /\ \A j, k \in 1..Len(l) :
            j < k => FirstIndex(AllInitCategories, l[j]) < FirstIndex(AllInitCategories, l[k])

\* a merge whose result is not in sorted order, of inputs that share a name and
\* of which one is substituted and one filtered
C10_Witness ==
  /\ last.op = "get_merged_categories"
  /\ Len(regs) >= 2
  /\ Val(merged).init_categories = <<"b", "a">>
  /\ regs[2].init_categories = <<"a">>
  /\ \E i \in DOMAIN regs : is_cat_to_sub_cat(regs[i])
  /\ \E i \in DOMAIN regs : is_filtered(regs[i])

\* C11 (as claimed): get_merged_categories called without any registry fails
\* with InvalidRequestError and returns no registry.
C11_MergeOfNothingInvalidRequest ==
  (last.op = "get_merged_categories" /\ Len(regs) = 0) =>
    Val(merged).raised = "InvalidRequestError"

\* C11 (amended): get_merged_categories called without any registry fails with
\* the IndexError of categories[0] and returns no registry, not even an empty one.
C11_MergeOfNothingFails ==
  (last.op = "get_merged_categories" /\ Len(regs) = 0) =>
    /\ Val(merged).raised = "IndexError"
    /\ Val(merged).raised # "none"

\* the merge of no registry has been called
C11_Witness ==
  /\ last.op = "get_merged_categories"
  /\ Len(regs) = 0
  /\ ~IsNone(merged)

\* the value lists init_sub_categories[C][cat_to_sub_cat[C]] that include name n,
\* over the categories C the mapping of self substitutes
ChosenValueLists(self, n) ==
  LET isc == self.init_sub_categories
      m == Val(self.cat_to_sub_cat)
  IN {Lookup(Lookup(isc, C), Lookup(m, C)) :
        C \in {c \in KeySet(m) : /\ HasKey(isc, c)
                                 /\ HasKey(Lookup(isc, c), Lookup(m, c))
                                 /\ n \in Range(Lookup(Lookup(isc, c), Lookup(m, c)))}}

\* C12: with a substitution active, a get_sub_categories call that returns maps
\* every requested name with an own init_sub_categories entry to the ordered
\* list of its sub-category keys, and every other requested name N to the value
\* list init_sub_categories[C][cat_to_sub_cat[C]] that includes N, or to the
\* empty list when there is no such list.
C12_PromotedSubCategories ==
  (/\ last.op = "get_sub_categories"
   /\ ~IsNone(Self.cat_to_sub_cat)
   /\ Len(Val(Self.cat_to_sub_cat)) > 0
   /\ Val(last.ret).raised = "none")
    => \A n \in Requested(Self, last.arg) :
         LET value == Val(last.ret).value
             isc == Self.init_sub_categories
         IN /\ HasKey(value, n)
            /\ IF HasKey(isc, n)
                 THEN Lookup(value, n) = DictKeys(Lookup(isc, n))
                 ELSE IF ChosenValueLists(Self, n) # {}
                        THEN Lookup(value, n) \in ChosenValueLists(Self, n)
                        ELSE Lookup(value, n) = <<>>

\* C13: get_sub_categories called with None, or with names that are all in the
\* current view, raises nothing and returns a mapping whose keys are requested
\* names, whatever set_cat_to_sub_cat and filter_categories calls came before.
C13_SubCategoriesTotal ==
  (/\ last.op = "get_sub_categories"
   /\ Requested(Self, last.arg) \subseteq Range(CategoryList(Self, FALSE, TRUE)))
    => /\ Val(last.ret).raised = "none"
       /\ KeySet(Val(last.ret).value) \subseteq Requested(Self, last.arg)

=============================================================================
